---- MODULE Spec2Model ----
(***************************************************************************)
(* A model of RollbackMap (src/src/rollbackmap.rs): a key-value map kept   *)
(* as a vector of VersionState layers, with checkpoint / rollback / prune. *)
(*                                                                         *)
(* The keys and values are small integers.  An Option<T> is the empty      *)
(* sequence (None) or a one-element sequence (Some(x)).  A BTreeMap<K, V>  *)
(* over the finite key universe is a function Keys -> Option<V>.           *)
(***************************************************************************)
EXTENDS Integers, Sequences, FiniteSets, TLC

\* ------------------------------------------------------------- bounds
NumKeys == 2
NumValues == 2
\* checkpoint() is not called once the current layer has this id, so the
\* vector holds at most MaxCheckpoint + 1 layers
MaxCheckpoint == 2
\* the width of usize in bits, scaled down: the arithmetic is modulo
\* 2^UsizeBits, and 2^UsizeBits > NumKeys + 1 keeps a correct count of the
\* visible keys away from the wrap
UsizeBits == 2

Keys == 1..NumKeys
Values == 1..NumValues
\* the ids handed to rollback(): every id a layer can have, and one more
CheckpointIds == 0..(MaxCheckpoint + 1)
UsizeModulus == 2 ^ UsizeBits

None == << >>
Some(x) == << x >>
IsSome(o) == o # None
Unwrap(o) == o[1]

VARIABLES
    versions,   \* RollbackMap.versions: Vec<VersionState<K, V>>, oldest first
    build,      \* "debug" (overflow checks on) or "release" (wrapping)
    panicked,   \* TRUE once a call has panicked (the thread unwinds)
    call,       \* history: the last call (see Call)
    snap,       \* history: the visible state at the last checkpoint(), kept
                \* while only insert and remove calls follow it ("open") and
                \* over the rollback to it that comes next ("rolled_back")
    discarded,  \* history: the checkpoint ids discarded by successful
                \* rollbacks since the last checkpoint()
    reissued,   \* history: TRUE when the last call was a checkpoint() that
                \* returned an id in discarded
    snaps,      \* history: for each outstanding checkpoint, oldest first, the
                \* visible state at the moment checkpoint() returned it
    uncleared,  \* history: TRUE when the last call was a rollback that
                \* returned true and dropped or reset a layer that a clear()
                \* had detached
    rbcase      \* history: what the last call was, when a rollback(id):
                \* "again" after a rollback(id) that returned true, "own_id"
                \* when id was the id of the current layer above a
                \* checkpoint, "none" otherwise

vars == << versions, build, panicked, call, snap, discarded, reissued, snaps,
          uncleared, rbcase >>

\* ------------------------------------------------------ VersionState
VersionStateNew(checkpoint, values_count) ==
    [ removed_keys |-> {},
      data         |-> [k \in Keys |-> None],
      detached     |-> FALSE,
      checkpoint   |-> checkpoint,
      values_count |-> values_count ]

\* reset() that forgets to restore the count
reset_keeps_count(version, values_count) ==
    [ version EXCEPT !.removed_keys = {},
                     !.data = [k \in Keys |-> None],
                     !.detached = FALSE ]

\* reset() that leaves the detached flag alone
reset_keeps_detached(version, values_count) ==
    [ version EXCEPT !.removed_keys = {},
                     !.data = [k \in Keys |-> None],
                     !.values_count = values_count ]

reset(version, values_count) ==
    [ version EXCEPT !.removed_keys = {},
                     !.data = [k \in Keys |-> None],
                     !.detached = FALSE,
                     !.values_count = values_count ]

\* -------------------------------------------------- usize arithmetic
\* `+= 1` and `-= 1` on a usize: a debug build panics on overflow, a
\* release build wraps.
overflow_checks == build = "debug"

usize_add(a, b) ==
    [ value |-> (a + b) % UsizeModulus, overflow |-> a + b >= UsizeModulus ]

usize_sub(a, b) ==
    [ value |-> (a - b + UsizeModulus) % UsizeModulus, overflow |-> a < b ]

\* ------------------------------------------------------------ reads
last(vs) == vs[Len(vs)]

\* a write that lands in the oldest layer
set_first(vs, version) == [vs EXCEPT ![1] = version]

set_last(vs, version) == [vs EXCEPT ![Len(vs)] = version]

RECURSIVE deep_scan_through(_, _, _)
\* a lookup that does not stop at a detached layer
deep_scan_through(vs, key, i) ==
    IF i = 0 THEN None
    ELSE IF IsSome(vs[i].data[key]) THEN vs[i].data[key]
    ELSE IF key \in vs[i].removed_keys THEN None
    ELSE deep_scan_through(vs, key, i - 1)

RECURSIVE deep_scan(_, _, _)
\* the loop of deep_get_key_value, at the layer of index i (newest first)
deep_scan(vs, key, i) ==
    IF i = 0 THEN None
    ELSE IF IsSome(vs[i].data[key]) THEN vs[i].data[key]
    ELSE IF key \in vs[i].removed_keys THEN None
    ELSE IF vs[i].detached THEN None
    ELSE deep_scan(vs, key, i - 1)

deep_get_key_value(vs, key) == deep_scan(vs, key, Len(vs))

get(vs, key) == deep_get_key_value(vs, key)

contains_key(vs, key) == IsSome(deep_get_key_value(vs, key))

len(vs) == IF Len(vs) > 0 THEN last(vs).values_count ELSE 0

is_empty(vs) == len(vs) = 0

get_last_checkpoint(vs) ==
    IF Len(vs) < 2 THEN None ELSE Some(vs[Len(vs) - 1].checkpoint)

get_prev_checkpoint(vs) ==
    IF Len(vs) < 3 THEN None ELSE Some(vs[Len(vs) - 2].checkpoint)

get_checkpoints_count(vs) == IF Len(vs) < 2 THEN 0 ELSE Len(vs) - 1

\* ------------------------------------------------------------ insert
\* a previous value looked up in the current layer alone
insert_pv_local(vs, key) == last(vs).data[key]

\* the previous value insert() computes before it writes
insert_pv(vs, key) ==
    IF key \notin last(vs).removed_keys
    THEN deep_get_key_value(vs, key)
    ELSE None

\* insert() that leaves the key in removed_keys
insert_keeps_tombstone(vs, key, value) ==
    LET pv    == insert_pv(vs, key)
        last1 == [ last(vs) EXCEPT !.data[key] = Some(value) ]
        sum   == usize_add(last1.values_count, 1)
    IN  IF IsSome(pv)
        THEN [ versions |-> set_last(vs, last1), ret |-> pv, panic |-> FALSE ]
        ELSE IF sum.overflow /\ overflow_checks
        THEN [ versions |-> set_last(vs, last1), ret |-> None, panic |-> TRUE ]
        ELSE [ versions |-> set_last(vs, [last1 EXCEPT !.values_count = sum.value]),
               ret |-> pv, panic |-> FALSE ]

\* insert(): the new vector, the returned value, and whether it panicked
insert(vs, key, value) ==
    LET pv    == insert_pv(vs, key)
        last1 == [ last(vs) EXCEPT !.removed_keys = @ \ {key},
                                   !.data[key] = Some(value) ]
        sum   == usize_add(last1.values_count, 1)
    IN  IF IsSome(pv)
        THEN [ versions |-> set_last(vs, last1), ret |-> pv, panic |-> FALSE ]
        ELSE IF sum.overflow /\ overflow_checks
        THEN [ versions |-> set_last(vs, last1), ret |-> None, panic |-> TRUE ]
        ELSE [ versions |-> set_last(vs, [last1 EXCEPT !.values_count = sum.value]),
               ret |-> pv, panic |-> FALSE ]

\* ------------------------------------------------------------ remove
\* the first branch of remove(): the key is in the current layer's data
remove_local(vs, key) ==
    LET sub == usize_sub(last(vs).values_count, 1)
    IN  IF sub.overflow /\ overflow_checks
        THEN [ versions |-> vs, ret |-> None, panic |-> TRUE ]
        ELSE [ versions |->
                 set_last(vs, [ last(vs) EXCEPT !.values_count = sub.value,
                                                !.data[key] = None ]),
               ret |-> last(vs).data[key], panic |-> FALSE ]

\* the second branch of remove(): the key is looked up in all the layers
remove_deep(vs, key) ==
    LET found == deep_get_key_value(vs, key)
        sub   == usize_sub(last(vs).values_count, 1)
    IN  IF IsSome(found)
        THEN IF sub.overflow /\ overflow_checks
             THEN [ versions |-> vs, ret |-> None, panic |-> TRUE ]
             ELSE [ versions |->
                      set_last(vs, [ last(vs) EXCEPT !.values_count = sub.value,
                                                     !.removed_keys = @ \cup {key} ]),
                    ret |-> found, panic |-> FALSE ]
        ELSE [ versions |-> vs, ret |-> None, panic |-> FALSE ]

remove(vs, key) ==
    IF IsSome(last(vs).data[key])
    THEN remove_local(vs, key)
    ELSE remove_deep(vs, key)

\* ------------------------------------------------------------- clear
\* clear() that forgets the detached flag
clear_attached(vs) ==
    set_last(vs, [ last(vs) EXCEPT !.data = [k \in Keys |-> None],
                                   !.removed_keys = {},
                                   !.values_count = 0 ])

clear(vs) ==
    set_last(vs, [ last(vs) EXCEPT !.data = [k \in Keys |-> None],
                                   !.removed_keys = {},
                                   !.detached = TRUE,
                                   !.values_count = 0 ])

\* -------------------------------------------------------- checkpoint
\* a pushed layer that takes the id of the layer before it
next_checkpoint_same(version) == version

\* the id checkpoint() gives the layer it pushes
next_checkpoint(version) == version + 1

\* checkpoint() that returns the id of the layer it pushes
checkpoint_returns_new_id(vs) ==
    [ versions |-> Append(vs, VersionStateNew(next_checkpoint(last(vs).checkpoint),
                                              last(vs).values_count)),
      ret |-> Some(next_checkpoint(last(vs).checkpoint)) ]

\* checkpoint() that pushes a layer with a count of 0
checkpoint_zero_count(vs) ==
    [ versions |-> Append(vs, VersionStateNew(next_checkpoint(last(vs).checkpoint), 0)),
      ret |-> Some(last(vs).checkpoint) ]

checkpoint(vs) ==
    [ versions |-> Append(vs, VersionStateNew(next_checkpoint(last(vs).checkpoint),
                                              last(vs).values_count)),
      ret |-> Some(last(vs).checkpoint) ]

\* ---------------------------------------------------------- rollback
\* a search that takes the current layer for a match
rollback_find_always(vs, id, i) == i

RECURSIVE rollback_find(_, _, _)
\* the first loop of rollback(): the newest layer with the id, or 0
rollback_find(vs, id, i) ==
    IF i = 0 THEN 0
    ELSE IF vs[i].checkpoint = id THEN i
    ELSE rollback_find(vs, id, i - 1)

pop(vs) == SubSeq(vs, 1, Len(vs) - 1)

RECURSIVE rollback_loop_accepts_current(_, _, _)
\* a pop loop that compares the id with the current layer's
rollback_loop_accepts_current(vs, id, values_count) ==
    IF Len(vs) >= 2
    THEN IF last(vs).checkpoint = id \/ get_last_checkpoint(vs) = Some(id)
         THEN [ versions |-> set_last(vs, reset(last(vs), values_count)),
                ret |-> TRUE ]
         ELSE rollback_loop_accepts_current(pop(vs), id, values_count)
    ELSE [ versions |-> vs, ret |-> FALSE ]

RECURSIVE rollback_loop_consumes(_, _, _)
\* a pop loop that also pops the layer above the checkpoint, so that the
\* frozen layer becomes the current one
rollback_loop_consumes(vs, id, values_count) ==
    IF Len(vs) >= 2
    THEN IF get_last_checkpoint(vs) = Some(id)
         THEN [ versions |-> pop(vs), ret |-> TRUE ]
         ELSE rollback_loop_consumes(pop(vs), id, values_count)
    ELSE [ versions |-> vs, ret |-> FALSE ]

RECURSIVE rollback_loop_no_reset(_, _, _)
\* the pop loop without the reset of the current layer
rollback_loop_no_reset(vs, id, values_count) ==
    IF Len(vs) >= 2
    THEN IF get_last_checkpoint(vs) = Some(id)
         THEN [ versions |-> vs, ret |-> TRUE ]
         ELSE rollback_loop_no_reset(pop(vs), id, values_count)
    ELSE [ versions |-> vs, ret |-> FALSE ]

RECURSIVE rollback_loop(_, _, _)
\* the second loop of rollback(): pops layers until the last checkpoint is
\* the id, and resets the current layer then
rollback_loop(vs, id, values_count) ==
    IF Len(vs) >= 2
    THEN IF get_last_checkpoint(vs) = Some(id)
         THEN [ versions |-> set_last(vs, reset(last(vs), values_count)),
                ret |-> TRUE ]
         ELSE rollback_loop(pop(vs), id, values_count)
    ELSE [ versions |-> vs, ret |-> FALSE ]

\* rollback() that restores the count of the current layer
rollback_count_of_last(vs, id) ==
    LET i == rollback_find(vs, id, Len(vs))
    IN  IF i = 0
        THEN [ versions |-> vs, ret |-> FALSE ]
        ELSE rollback_loop(vs, id, last(vs).values_count)

rollback(vs, id) ==
    LET i == rollback_find(vs, id, Len(vs))
    IN  IF i = 0
        THEN [ versions |-> vs, ret |-> FALSE ]
        ELSE rollback_loop(vs, id, vs[i].values_count)

\* ------------------------------------------------------------- prune
RECURSIVE prune_loop_keeps_three(_)
\* a prune loop that stops one layer early
prune_loop_keeps_three(vs) ==
    IF Len(vs) > 3 THEN prune_loop_keeps_three(Tail(vs)) ELSE vs

RECURSIVE prune_loop_from_tail(_)
\* a prune loop that removes the newest layers
prune_loop_from_tail(vs) ==
    IF Len(vs) > 2 THEN prune_loop_from_tail(pop(vs)) ELSE vs

RECURSIVE prune_loop(_)
prune_loop(vs) == IF Len(vs) > 2 THEN prune_loop(Tail(vs)) ELSE vs

prune(vs) ==
    LET vs1 == prune_loop(vs)
    IN  [ versions |-> vs1, ret |-> get_last_checkpoint(vs1) ]

\* ------------------------------------------------- the visible state
View(vs) == [k \in Keys |-> get(vs, k)]

VisibleKeys(vs) == {k \in Keys : IsSome(get(vs, k))}

NoSnap ==
    [ state |-> "none", id |-> 0, view |-> [k \in Keys |-> None], len |-> 0,
      mutated |-> FALSE, after_clear |-> FALSE ]

\* the snapshot after an insert or a remove that leaves the vector as vs1
SnapMutated(vs1) ==
    IF snap.state = "open"
    THEN [snap EXCEPT !.mutated = @ \/ vs1 # versions]
    ELSE NoSnap

\* the entry of snaps for a checkpoint() of vs
SnapOf(vs) ==
    [ view |-> View(vs), len |-> len(vs), valid |-> TRUE ]

\* the entry of snaps for a checkpoint that a prune() has passed
Forfeited ==
    [ view |-> [k \in Keys |-> None], len |-> 0, valid |-> FALSE ]

\* a clear() made after the checkpoint that froze layer i is in effect:
\* clear() alone sets detached, and only the reset() of a rollback unsets it
ClearedSince(vs, i) == \E j \in (i + 1)..Len(vs) : vs[j].detached

\* rbcase after a rollback(id)
RollbackCase(id) ==
    IF call.op = "rollback" /\ call.ok /\ call.checkpoint = id
    THEN "again"
    ELSE IF Len(versions) >= 2 /\ id = last(versions).checkpoint
    THEN "own_id"
    ELSE "none"

\* the ids of the outstanding checkpoints: of every layer but the current
Outstanding(vs) == {vs[i].checkpoint : i \in 1..(Len(vs) - 1)}

\* a call: its name, its arguments (0 where it has none) and, for rollback,
\* the boolean it returned; the values the other calls return are
\* insert(..).ret, remove(..).ret, checkpoint(..).ret and prune(..).ret
Call(op, key, value, id, ok) ==
    [ op |-> op, key |-> key, value |-> value, checkpoint |-> id, ok |-> ok ]

\* ----------------------------------------------------------- actions
new == <<VersionStateNew(0, 0)>>

Init ==
    /\ versions = new
    /\ build \in {"debug", "release"}
    /\ panicked = FALSE
    /\ call = Call("new", 0, 0, 0, FALSE)
    /\ snap = NoSnap
    /\ discarded = {}
    /\ reissued = FALSE
    /\ snaps = << >>
    /\ uncleared = FALSE
    /\ rbcase = "none"

Insert(key, value) ==
    /\ ~panicked
    /\ LET r == insert(versions, key, value)
       IN  /\ versions' = r.versions
           /\ panicked' = r.panic
           /\ call' = Call("insert", key, value, 0, FALSE)
           /\ snap' = SnapMutated(r.versions)
    /\ reissued' = FALSE
    /\ uncleared' = FALSE
    /\ rbcase' = "none"
    /\ UNCHANGED << build, discarded, snaps >>

Remove(key) ==
    /\ ~panicked
    /\ LET r == remove(versions, key)
       IN  /\ versions' = r.versions
           /\ panicked' = r.panic
           /\ call' = Call("remove", key, 0, 0, FALSE)
           /\ snap' = SnapMutated(r.versions)
    /\ reissued' = FALSE
    /\ uncleared' = FALSE
    /\ rbcase' = "none"
    /\ UNCHANGED << build, discarded, snaps >>

Clear ==
    /\ ~panicked
    /\ versions' = clear(versions)
    /\ call' = Call("clear", 0, 0, 0, FALSE)
    /\ snap' = NoSnap
    /\ reissued' = FALSE
    /\ uncleared' = FALSE
    /\ rbcase' = "none"
    /\ UNCHANGED << build, panicked, discarded, snaps >>

\* the guard bounds the ids, and keeps `version + 1` away from the end of u32
Checkpoint ==
    /\ ~panicked
    /\ last(versions).checkpoint < MaxCheckpoint
    /\ LET r == checkpoint(versions)
       IN  /\ versions' = r.versions
           /\ call' = Call("checkpoint", 0, 0, 0, FALSE)
           /\ snap' = [ state |-> "open", id |-> Unwrap(r.ret),
                        view |-> View(versions), len |-> len(versions),
                        mutated |-> FALSE, after_clear |-> call.op = "clear" ]
           /\ reissued' = (Unwrap(r.ret) \in discarded)
    /\ discarded' = {}
    /\ snaps' = Append(snaps, SnapOf(versions))
    /\ uncleared' = FALSE
    /\ rbcase' = "none"
    /\ UNCHANGED << build, panicked >>

Rollback(id) ==
    /\ ~panicked
    /\ LET r == rollback(versions, id)
       IN  /\ versions' = r.versions
           /\ call' = Call("rollback", 0, 0, id, r.ret)
           /\ discarded' = IF r.ret
                            THEN discarded \cup
                                 (Outstanding(versions) \ Outstanding(r.versions))
                            ELSE discarded
           /\ snaps' = SubSeq(snaps, 1, Len(r.versions) - 1)
           /\ uncleared' = (r.ret /\ ClearedSince(versions, Len(r.versions) - 1))
           /\ rbcase' = RollbackCase(id)
    /\ snap' = IF snap.state = "open" /\ id = snap.id
               THEN [snap EXCEPT !.state = "rolled_back"]
               ELSE NoSnap
    /\ reissued' = FALSE
    /\ UNCHANGED << build, panicked >>

Prune ==
    /\ ~panicked
    /\ LET r == prune(versions)
       IN  /\ versions' = r.versions
           /\ call' = Call("prune", 0, 0, 0, FALSE)
           /\ snaps' = IF r.versions = versions THEN snaps ELSE << Forfeited >>
    /\ uncleared' = FALSE
    /\ rbcase' = "none"
    /\ snap' = NoSnap
    /\ reissued' = FALSE
    /\ UNCHANGED << build, panicked, discarded >>

Next ==
    \/ \E key \in Keys, value \in Values : Insert(key, value)
    \/ \E key \in Keys : Remove(key)
    \/ Clear
    \/ Checkpoint
    \/ \E id \in CheckpointIds : Rollback(id)
    \/ Prune

Spec == Init /\ [][Next]_vars

\* =============================================================== claims

\* C1: count invariant: in every state reached from new() by insert, remove,
\* clear, checkpoint, rollback and prune calls, len() is the number of keys
\* k for which get(k) returns a value.
C1_CountInvariant ==
    ~panicked => len(versions) = Cardinality(VisibleKeys(versions))

\* C2: round trip: when c is the id checkpoint() returned and only insert and
\* remove calls followed, rollback(c) returns true, and get(k) for every key
\* k and len() are then what they were when checkpoint() was called.
C2_RoundTrip ==
    snap.state = "rolled_back" =>
        /\ call.op = "rollback" /\ call.checkpoint = snap.id
        /\ call.ok
        /\ View(versions) = snap.view
        /\ len(versions) = snap.len

\* C2 witness: a rollback to the snapshot that had a key to restore, after
\* inserts or removes changed the map.
C2_Witness ==
    /\ snap.state = "rolled_back"
    /\ snap.mutated
    /\ call.ok
    /\ snap.len > 0
    /\ \E k \in Keys : IsSome(snap.view[k])

\* C3: after remove(k) returns, contains_key(k) is false, get(k) is absent
\* and a repeated remove(k) returns absent, whatever checkpoints lie between
\* the insertions of k and the removal.
C3_RemovedKeyAbsent ==
    (call.op = "remove" /\ ~panicked) =>
        /\ ~contains_key(versions, call.key)
        /\ get(versions, call.key) = None
        /\ remove(versions, call.key).ret = None

\* C4: rollback is atomic: whenever rollback(id) returns false, the map is
\* as it was before the call (the same layers, hence the same get, len(),
\* get_checkpoints_count() and get_last_checkpoint()).
C4_RollbackAtomic ==
    [][ (call'.op = "rollback" /\ ~call'.ok) =>
            /\ versions' = versions
            /\ View(versions') = View(versions)
            /\ len(versions') = len(versions)
            /\ get_checkpoints_count(versions') = get_checkpoints_count(versions)
            /\ get_last_checkpoint(versions') = get_last_checkpoint(versions)
      ]_vars

\* C5: prune preserves the visible state: get(k) for every key k and len()
\* are the same right after prune() as right before it.
C5_PrunePreservesView ==
    [][ call'.op = "prune" =>
            /\ View(versions') = View(versions)
            /\ len(versions') = len(versions)
      ]_vars

\* C6: backward-only rollback: after rollback(c) succeeded and before any
\* new checkpoint(), rollback(d) for an id d which that rollback discarded
\* returns false and leaves the map unchanged.
C6_BackwardOnly ==
    [][ (call'.op = "rollback" /\ call'.checkpoint \in discarded) =>
            /\ ~call'.ok
            /\ versions' = versions
      ]_vars

\* C7: checkpoint ids are unique and increasing over the life of one map:
\* every id returned by checkpoint() is strictly greater than every id
\* returned by an earlier checkpoint() call, so an id discarded by rollback
\* is never issued again.  (The formula is that conclusion, for the ids
\* discarded by the successful rollbacks since the checkpoint() before:
\* each of them was returned by an earlier checkpoint() call.)
C7_DiscardedIdNeverReissued ==
    [][ call'.op = "checkpoint" =>
            Unwrap(checkpoint(versions).ret) \notin discarded
      ]_vars

\* C7 as amended: every id returned by checkpoint() is strictly greater than
\* the id of every checkpoint outstanding when it is called (the ids of the
\* layers before the current one), and it is get_last_checkpoint() after
\* the call; an id discarded by rollback is issued again.
C7_IdsAboveOutstanding ==
    [][ call'.op = "checkpoint" =>
            /\ \A d \in Outstanding(versions) :
                   d < Unwrap(checkpoint(versions).ret)
            /\ get_last_checkpoint(versions') = checkpoint(versions).ret
      ]_vars

\* C7 witness: a checkpoint() taken while an earlier checkpoint is
\* outstanding, returning an id that a rollback had discarded.
C7_Witness ==
    /\ call.op = "checkpoint"
    /\ reissued
    /\ Len(versions) >= 3

\* C8: insert(k, v) returns the value get(k) returned right before the call
\* (absent when k was not visible), also when that value lives in an older
\* layer; right after it get(k) returns v and get(j) is unchanged for every
\* other key j.
C8_InsertReturnsPrevious ==
    [][ (call'.op = "insert" /\ ~panicked') =>
            /\ insert(versions, call'.key, call'.value).ret = get(versions, call'.key)
            /\ get(versions', call'.key) = Some(call'.value)
            /\ \A j \in Keys \ {call'.key} : get(versions', j) = get(versions, j)
      ]_vars

\* C8 witness: an insert over a value that an older layer holds, with the
\* other key visible as well.
C8_Witness ==
    /\ call.op = "insert"
    /\ ~panicked
    /\ Len(versions) >= 2
    /\ IsSome(deep_scan(versions, call.key, Len(versions) - 1))
    /\ deep_scan(versions, call.key, Len(versions) - 1) # Some(call.value)
    /\ \E j \in Keys \ {call.key} : IsSome(get(versions, j))

\* C9: insert(k, v) increases len() by exactly 1 when it returns absent and
\* leaves len() unchanged when it returns a previous value.
C9_InsertCount ==
    [][ (call'.op = "insert" /\ ~panicked') =>
            IF insert(versions, call'.key, call'.value).ret = None
            THEN len(versions') = len(versions) + 1
            ELSE len(versions') = len(versions)
      ]_vars

\* C10: remove(k) returns the value get(k) returned right before the call
\* and decreases len() by 1; when get(k) was absent it returns absent and
\* the whole state is unchanged.
C10_RemoveReturnsAndCounts ==
    [][ call'.op = "remove" =>
            /\ ~panicked'
            /\ remove(versions, call'.key).ret = get(versions, call'.key)
            /\ IF IsSome(get(versions, call'.key))
               THEN len(versions') = len(versions) - 1
               ELSE versions' = versions
      ]_vars

\* C11: with several checkpoints outstanding and no prune() since they were
\* taken, rollback(ci) to any of them returns true and restores get(k) of
\* every key and len() to their values at the moment checkpoint() returned
\* ci; the checkpoints up to ci stay outstanding, so that rolling back to
\* cn, ..., c1 in turn undoes each interval.
C11_MultiLevelRollback ==
    [][ call'.op = "rollback" =>
            \A i \in 1..Len(snaps) :
                (versions[i].checkpoint = call'.checkpoint /\ snaps[i].valid) =>
                    /\ call'.ok
                    /\ View(versions') = snaps[i].view
                    /\ len(versions') = snaps[i].len
                    /\ snaps' = SubSeq(snaps, 1, i)
                    /\ Outstanding(versions') = {versions[j].checkpoint : j \in 1..i}
      ]_vars

\* C11 witness: a successful rollback past a newer checkpoint, to a state
\* that holds a key.
C11_Witness ==
    /\ call.op = "rollback"
    /\ call.ok
    /\ call.checkpoint + 1 \in discarded
    /\ snaps[Len(snaps)].valid
    /\ len(versions) > 0

\* C13: clear is a hard wall: after clear(), c = checkpoint(), any inserts
\* and removes, and rollback(c), the map is empty, and before the rollback as
\* after it nothing that the layers under the checkpoint hold is visible:
\* get(k) finds only what the current layer holds.
C13_ClearIsWall ==
    snap.after_clear =>
        /\ snap.state = "open" =>
              \A k \in Keys : get(versions, k) = last(versions).data[k]
        /\ snap.state = "rolled_back" =>
              /\ call.ok
              /\ len(versions) = 0
              /\ \A k \in Keys : get(versions, k) = None /\ ~contains_key(versions, k)

\* C13 witness: the rollback has run, after mutations, over an older layer
\* that holds a key written before the clear.
C13_Witness ==
    /\ snap.after_clear
    /\ snap.state = "rolled_back"
    /\ snap.mutated
    /\ \E i \in 1..(Len(versions) - 2), k \in Keys : IsSome(versions[i].data[k])

\* C14: clear can be undone: when c = checkpoint() is followed by clear()
\* (and by more inserts, removes and checkpoints), rollback(c) returns true
\* and restores get(k) of every key and len() to their values at the
\* checkpoint().
C14_ClearUndone ==
    [][ call'.op = "rollback" =>
            \A i \in 1..Len(snaps) :
                ( /\ versions[i].checkpoint = call'.checkpoint
                  /\ snaps[i].valid
                  /\ ClearedSince(versions, i) ) =>
                    /\ call'.ok
                    /\ \A k \in Keys : get(versions', k) = snaps[i].view[k]
                    /\ len(versions') = snaps[i].len
      ]_vars

\* C14 witness: a rollback to a checkpoint that a clear() followed, back to
\* a state that holds a key.
C14_Witness ==
    /\ call.op = "rollback"
    /\ call.ok
    /\ uncleared
    /\ len(versions) > 0
    /\ \E k \in Keys : IsSome(get(versions, k))

\* C12: after clear(), whatever the older layers hold, len() is 0 and get(k)
\* and contains_key(k) report absent for every key k; a key inserted after
\* the clear is visible again.
C12_ClearEmpties ==
    call.op = "clear" =>
        /\ len(versions) = 0
        /\ \A k \in Keys : get(versions, k) = None /\ ~contains_key(versions, k)
        /\ \A k \in Keys, v \in Values :
              LET r == insert(versions, k, v)
              IN  ~r.panic /\ get(r.versions, k) = Some(v)

\* C12 witness: a clear() over a key that an older layer holds.
C12_Witness ==
    /\ call.op = "clear"
    /\ Len(versions) >= 2
    /\ \E k \in Keys : IsSome(deep_scan(versions, k, Len(versions) - 1))

\* C15: checkpoint() returns a present id, the id of the layer that was
\* current before the call; it is get_last_checkpoint() right after the call,
\* and get_checkpoints_count() grows by exactly 1.
C15_CheckpointReturnsFrozenId ==
    [][ call'.op = "checkpoint" =>
            /\ IsSome(checkpoint(versions).ret)
            /\ checkpoint(versions).ret = Some(last(versions).checkpoint)
            /\ get_last_checkpoint(versions') = checkpoint(versions).ret
            /\ get_checkpoints_count(versions') = get_checkpoints_count(versions) + 1
      ]_vars

\* C15 witness: a second checkpoint() of a map that holds a key.
C15_Witness ==
    /\ call.op = "checkpoint"
    /\ Len(versions) = 3
    /\ len(versions) > 0

\* C16: after rollback(c) returns true, get_last_checkpoint() is c, no layer
\* has an id greater than c + 1 (get_checkpoints_count() counts only the
\* checkpoints with an id <= c), and the current layer has empty data, an
\* empty removed set and detached = false.
C16_RollbackResult ==
    (call.op = "rollback" /\ call.ok) =>
        /\ get_last_checkpoint(versions) = Some(call.checkpoint)
        /\ \A i \in 1..Len(versions) : versions[i].checkpoint <= call.checkpoint + 1
        /\ get_checkpoints_count(versions) =
              Cardinality({d \in Outstanding(versions) : d <= call.checkpoint})
        /\ last(versions).data = [k \in Keys |-> None]
        /\ last(versions).removed_keys = {}
        /\ ~last(versions).detached

\* C16 witness: a successful rollback that discarded a checkpoint.
C16_Witness ==
    /\ call.op = "rollback"
    /\ call.ok
    /\ discarded # {}
    /\ len(versions) > 0

\* C17: after prune(), rollback to any checkpoint id older than the last
\* checkpoint returns false, while rollback to the last checkpoint (the id
\* prune() returned) returns true and discards the mutations made since that
\* checkpoint: the older layer is kept and the current one is emptied.
C17_PruneForfeitsOlder ==
    (call.op = "prune" /\ IsSome(get_last_checkpoint(versions))) =>
        LET c == Unwrap(get_last_checkpoint(versions))
            r == rollback(versions, c)
            n == Len(versions)
        IN  /\ \A id \in CheckpointIds : id < c => ~rollback(versions, id).ret
            /\ r.ret
            /\ pop(r.versions) = pop(versions)
            /\ last(r.versions).data = [k \in Keys |-> None]
            /\ last(r.versions).removed_keys = {}
            /\ \A k \in Keys : get(r.versions, k) = deep_scan(versions, k, n - 1)
            /\ len(r.versions) = versions[n - 1].values_count

\* C17 witness: a prune() that removed a layer, with a key written since
\* the last checkpoint.
C17_Witness ==
    /\ call.op = "prune"
    /\ Len(versions) = 2
    /\ versions[1].checkpoint >= 1
    /\ \E k \in Keys : IsSome(last(versions).data[k])

\* C18: prune() returns the value get_last_checkpoint() had before the call
\* (absent when there was no checkpoint); afterwards get_checkpoints_count()
\* is 1 when there was a checkpoint and 0 otherwise; the current layer and
\* the layer before it are not modified.
C18_PruneResult ==
    [][ call'.op = "prune" =>
            /\ prune(versions).ret = get_last_checkpoint(versions)
            /\ get_checkpoints_count(versions') =
                  (IF get_checkpoints_count(versions) >= 1 THEN 1 ELSE 0)
            /\ last(versions') = last(versions)
            /\ Len(versions) >= 2 =>
                  /\ Len(versions') >= 2
                  /\ versions'[Len(versions') - 1] = versions[Len(versions) - 1]
      ]_vars

\* C18 witness: a prune() of three layers.
C18_Witness ==
    /\ call.op = "prune"
    /\ get_checkpoints_count(versions) = 1
    /\ versions[1].checkpoint = 1

\* C19: rollback(id) with an id that no layer of the sequence has (never
\* issued, pruned away, or larger than the current layer's id) returns false
\* and changes nothing.
C19_RollbackUnknownId ==
    [][ ( /\ call'.op = "rollback"
          /\ \A i \in 1..Len(versions) : versions[i].checkpoint # call'.checkpoint ) =>
            /\ ~call'.ok
            /\ versions' = versions
      ]_vars

\* C19 witness: a failed rollback to an id that prune() removed.
C19_Witness ==
    /\ call.op = "rollback"
    /\ ~call.ok
    /\ Len(versions) >= 2
    /\ call.checkpoint < versions[1].checkpoint

\* C20: the layer sequence is never empty and the checkpoint ids of its
\* layers increase strictly from the oldest to the newest, none twice.
C20_IdsStrictlyIncreasing ==
    /\ Len(versions) >= 1
    /\ \A i, j \in 1..Len(versions) :
          i < j => versions[i].checkpoint < versions[j].checkpoint

\* C20 witness: two layers left by a prune() and a rollback after it.
C20_Witness ==
    /\ call.op = "rollback"
    /\ call.ok
    /\ Len(versions) = 2
    /\ versions[1].checkpoint >= 1

\* C21: in every reachable state and for every layer, no key is at the same
\* time in the layer's data map and in its removed_keys set.
C21_DataAndRemovedDisjoint ==
    \A i \in 1..Len(versions), k \in Keys :
        ~(IsSome(versions[i].data[k]) /\ k \in versions[i].removed_keys)

\* C21 witness: an insert of a key into a layer that holds a tombstone, over
\* a value of the key in an older layer.
C21_Witness ==
    /\ call.op = "insert"
    /\ Len(versions) >= 2
    /\ last(versions).removed_keys # {}
    /\ IsSome(deep_scan(versions, call.key, Len(versions) - 1))

\* C22: insert, remove and clear modify only the last layer: every older
\* layer (data, removed_keys, detached, checkpoint id, count) is unchanged by
\* these calls, and the last layer keeps its checkpoint id; checkpoint()
\* leaves every existing layer unchanged.
C22_OnlyLastLayerWritten ==
    [][ /\ call'.op \in {"insert", "remove", "clear"} =>
              /\ Len(versions') = Len(versions)
              /\ \A i \in 1..(Len(versions) - 1) : versions'[i] = versions[i]
              /\ last(versions').checkpoint = last(versions).checkpoint
        /\ call'.op = "checkpoint" =>
              /\ Len(versions') = Len(versions) + 1
              /\ \A i \in 1..Len(versions) : versions'[i] = versions[i]
      ]_vars

\* C22 witness: a clear() above two frozen layers that hold keys.
C22_Witness ==
    /\ call.op = "clear"
    /\ Len(versions) = 3
    /\ \E k \in Keys : IsSome(versions[1].data[k])
    /\ \E k \in Keys : IsSome(versions[2].data[k])

\* C23: the cached count never underflows: remove(k) decrements the current
\* layer's values_count only when it is at least 1, so that no call sequence
\* makes the subtraction panic or len() wrap around.
C23_CountNeverUnderflows ==
    [][ call'.op = "remove" =>
            /\ ~panicked'
            /\ last(versions').values_count # last(versions).values_count =>
                  /\ last(versions).values_count >= 1
                  /\ len(versions') < len(versions)
      ]_vars

\* C24: rollback(id) returns true exactly when id is the checkpoint id of a
\* layer other than the current one, that is, an outstanding checkpoint; the
\* current layer's own id makes it return false.
C24_RollbackTrueIffOutstanding ==
    [][ call'.op = "rollback" =>
            /\ call'.ok <=> call'.checkpoint \in Outstanding(versions)
            /\ call'.ok <=>
                  \E i \in 1..(Len(versions) - 1) :
                      versions[i].checkpoint = call'.checkpoint
            /\ call'.checkpoint = last(versions).checkpoint => ~call'.ok
      ]_vars

\* C24 witness: a rollback to the id of the current layer, with a
\* checkpoint outstanding, has returned false.
C24_Witness ==
    /\ call.op = "rollback"
    /\ rbcase = "own_id"
    /\ ~call.ok

\* C25: rollback is idempotent: a rollback(c) right after a rollback(c) that
\* returned true returns true as well and leaves the layers, get(k) of every
\* key, len() and the checkpoint queries unchanged.
C25_RollbackIdempotent ==
    [][ ( /\ call.op = "rollback"
          /\ call.ok
          /\ call'.op = "rollback"
          /\ call'.checkpoint = call.checkpoint ) =>
            /\ call'.ok
            /\ versions' = versions
            /\ \A k \in Keys : get(versions', k) = get(versions, k)
            /\ len(versions') = len(versions)
            /\ get_last_checkpoint(versions') = get_last_checkpoint(versions)
            /\ get_prev_checkpoint(versions') = get_prev_checkpoint(versions)
            /\ get_checkpoints_count(versions') = get_checkpoints_count(versions)
      ]_vars

\* C25 witness: the second of two rollbacks to the same checkpoint, of a map
\* that holds a key and has an older checkpoint too.
C25_Witness ==
    /\ call.op = "rollback"
    /\ rbcase = "again"
    /\ call.ok
    /\ Len(versions) = 3
    /\ len(versions) > 0

\* C26: checkpoint() does not change the visible state: get(k) of every key
\* and len() are the same right after the call as right before it, also
\* when an earlier clear() has detached the current layer.
C26_CheckpointKeepsView ==
    [][ call'.op = "checkpoint" =>
            /\ \A k \in Keys : get(versions', k) = get(versions, k)
            /\ \A k \in Keys : contains_key(versions', k) = contains_key(versions, k)
            /\ len(versions') = len(versions)
      ]_vars

\* C26 witness: a checkpoint() of a detached layer that holds a key, above
\* a layer that holds another key, hidden by the clear().
C26_Witness ==
    /\ call.op = "checkpoint"
    /\ Len(versions) = 3
    /\ versions[2].detached
    /\ \E k \in Keys : IsSome(get(versions, k))
    /\ \E k \in Keys : IsSome(versions[1].data[k]) /\ get(versions, k) = None

====
